---- MODULE Spec2Model ----
(***************************************************************************)
(* Model of the S3 wrapper class of lickdlabs/js-aws-s3.                   *)
(*                                                                         *)
(* The sources hold four successive definitions of `class S3`:             *)
(*   "index_v1"   src/src/index.ts      lines  21-233 (handleError)        *)
(*   "index_v2"   src/src/index.ts      lines 256-445 (generateError,      *)
(*                                      finally { stream.end() })          *)
(*   "part000_v1" src/unnamed/part_000  lines  22-237 (log and rethrow)    *)
(*   "part000_v2" src/unnamed/part_000  lines 260-457 (generateError,      *)
(*                                      finally { stream.end() })          *)
(* The download loop is textually the same in the four; they differ in how *)
(* a failure is normalised and in whether the write stream is ended.       *)
(*                                                                         *)
(* JavaScript numbers are modelled as <<n>> (an integer) or <<>> (NaN).    *)
(* JavaScript strings are modelled as sequences of one-character strings.  *)
(***************************************************************************)
EXTENDS Integers, Sequences, FiniteSets, TLC

\* ------------------------------------------------------------------ bounds
NumCalls == 2          \* concurrent downloadObject calls on one S3 instance
MaxChunks == 2         \* object lengths range up to MaxChunks * ONE_MB + 1
MaxOps == 2            \* single-shot operations recorded in one behaviour

\* --------------------------------------------------------------- constants
ONE_MB == 1024 * 1024

Variants == {"index_v1", "index_v2", "part000_v1", "part000_v2"}
Calls == 1..NumCalls

\* the loop is cut after this many range fetches of one call
MaxFetches == MaxChunks + 2

\* object lengths around every chunk boundary
Lengths == {n \in {k * ONE_MB + d : k \in 0..MaxChunks, d \in {-1, 0, 1}} : n >= 0}

\* ------------------------------------------------------ JavaScript numbers
NaN == <<>>
Num(n) == <<n>>

\* a + b of two numbers
JsAdd(a, b) == IF a = NaN \/ b = NaN THEN NaN ELSE Num(a[1] + b[1])

\* a === b of two numbers (NaN === NaN is false)
StrictEq(a, b) == a # NaN /\ b # NaN /\ a[1] = b[1]

Min(a, b) == IF a <= b THEN a ELSE b

\* ------------------------------------------------------ JavaScript strings
Undefined == <<"undefined">>

DigitChars == <<"0", "1", "2", "3", "4", "5", "6", "7", "8", "9">>

IsDigit(ch) == \E i \in 1..10 : DigitChars[i] = ch

DigitVal(ch) == (CHOOSE i \in 1..10 : DigitChars[i] = ch) - 1

\* String.prototype.split(sep) for a one-character separator
RECURSIVE SplitAcc(_, _, _, _)
SplitAcc(s, sep, cur, acc) ==
  IF s = <<>> THEN Append(acc, cur)
  ELSE IF Head(s) = sep THEN SplitAcc(Tail(s), sep, <<>>, Append(acc, cur))
  ELSE SplitAcc(Tail(s), sep, Append(cur, Head(s)), acc)

Split(s, sep) == SplitAcc(s, sep, <<>>, <<>>)

\* array destructuring: a missing element is undefined
At(arr, i) == IF i <= Len(arr) THEN arr[i] ELSE Undefined

RECURSIVE SkipWhiteSpace(_)
SkipWhiteSpace(s) ==
  IF s # <<>> /\ Head(s) = " " THEN SkipWhiteSpace(Tail(s)) ELSE s

RECURSIVE LeadingDigits(_)
LeadingDigits(s) ==
  IF s # <<>> /\ IsDigit(Head(s)) THEN <<Head(s)>> \o LeadingDigits(Tail(s)) ELSE <<>>

RECURSIVE DigitsValue(_, _)
DigitsValue(ds, acc) ==
  IF ds = <<>> THEN acc ELSE DigitsValue(Tail(ds), acc * 10 + DigitVal(Head(ds)))

\* parseInt(s): leading white space, an optional sign, then the longest run
\* of decimal digits; NaN when there is none (parseInt(undefined) reads the
\* string "undefined")
ParseInt(s) ==
  LET t == IF s = Undefined THEN <<"u", "n", "d", "e", "f", "i", "n", "e", "d">>
           ELSE SkipWhiteSpace(s)
      signed == t # <<>> /\ Head(t) \in {"-", "+"}
      neg == t # <<>> /\ Head(t) = "-"
      ds == LeadingDigits(IF signed THEN Tail(t) ELSE t)
  IN IF ds = <<>> THEN NaN
     ELSE Num((IF neg THEN -1 ELSE 1) * DigitsValue(ds, 0))

\* decimal rendering of an integer
RECURSIVE NatStr(_)
NatStr(n) ==
  IF n < 10 THEN <<DigitChars[n + 1]>> ELSE NatStr(n \div 10) \o <<DigitChars[(n % 10) + 1]>>

IntStr(n) == IF n < 0 THEN <<"-">> \o NatStr(-n) ELSE NatStr(n)

\* ---------------------------------------------------- downloadObject parts
isCompleteOffByOne(end, length) == StrictEq(end, length)

isComplete(end, length) == StrictEq(end, JsAdd(length, Num(-1)))

nextRangeWide(end) == [start |-> JsAdd(end, Num(1)), end |-> JsAdd(end, Num(ONE_MB + 1))]

nextRange(end) == [start |-> JsAdd(end, Num(1)), end |-> JsAdd(end, Num(ONE_MB))]

getRangeAndLength(contentRange) ==
  LET parts == Split(contentRange, "/")
      range == At(parts, 1)
      length == At(parts, 2)
      se == Split(range, "-")
      start == At(se, 1)
      end == At(se, 2)
  IN [start |-> ParseInt(start), end |-> ParseInt(end), length |-> ParseInt(length)]

\* ContentRange || ""
OrEmpty(contentRange) == IF contentRange = Undefined THEN <<>> ELSE contentRange

initialRangeAndLength == [start |-> Num(-1), end |-> Num(-1), length |-> Num(-1)]

\* `let rangeAndLength` is declared inside downloadObject: every call has
\* its own binding
rangeAndLengthShared(c) == 1

rangeAndLengthScope(c) == c

\* ------------------------------------------------------ error normalising
ErrorKinds == {"S3ServiceException", "Error", "NonError"}

\* what a collaborator throws: a service exception, another Error (network
\* failure, TypeError) or a value that is not an Error
Cause(kind) == [id |-> "cause", kind |-> kind, message |-> "cause"]

\* no error caught or thrown
NoError == [id |-> "none", kind |-> "none", message |-> "none"]

NewError(message) == [id |-> "new", kind |-> "Error", message |-> message]

FailureMessage(op) == "failed: " \o op

\* index_v1: private handleError(error, message)
handleError(error, message) ==
  IF error.kind = "S3ServiceException"
  THEN [thrown |-> [error EXCEPT !.message = message], logged |-> <<"error">>]
  ELSE [thrown |-> NewError(message), logged |-> <<"error">>]

\* index_v2, part000_v2: private generateError(error, message)
generateError(error, message) ==
  [thrown |-> IF error.kind \in {"S3ServiceException", "Error"}
              THEN [error EXCEPT !.message = message]
              ELSE NewError(message),
   logged |-> <<"error">>]

\* part000_v1: the catch clauses log and rethrow the error as it is;
\* updateObjectMetadata logs its failure with logger.info
logAndRethrow(op, error) ==
  [thrown |-> error,
   logged |-> IF op = "updateObjectMetadata" THEN <<"info">> ELSE <<"error">>]

\* the catch clause of an operation in each definition of the class
catchClause(v, op, error) ==
  CASE v = "index_v1" -> handleError(error, FailureMessage(op))
    [] v \in {"index_v2", "part000_v2"} -> generateError(error, FailureMessage(op))
    [] v = "part000_v1" -> logAndRethrow(op, error)

\* finally { stream.end() } exists in index_v2 and part000_v2 only
finallyClause(v, streamCalls) ==
  IF v \in {"index_v2", "part000_v2"} THEN Append(streamCalls, <<"end">>) ELSE streamCalls

\* the single-shot operations each definition of the class has
SingleShotOps(v) ==
  IF v \in {"index_v1", "part000_v1"}
  THEN {"headObject", "getObject", "updateObjectMetadata", "putObject"}
  ELSE {"headObject", "getObject", "putObject"}

\* ------------------------------------------------------- the object store
\* the two renderings of a content-range descriptor: "<s>-<e>/<len>" and the
\* HTTP one, "bytes <s>-<e>/<len>"
Prefixes == {<<>>, <<"b", "y", "t", "e", "s", " ">>}

ContentRangeOf(prefix, s, e, len) ==
  prefix \o IntStr(s) \o <<"-">> \o IntStr(e) \o <<"/">> \o IntStr(len)

\* the responses of a range-capable server that clamps the requested window
\* to the object's end; a window that starts past the end has none
ClampedResponses(len, req) ==
  IF /\ req.start # NaN /\ req.end # NaN
     /\ req.start[1] >= 0 /\ req.start[1] <= req.end[1]
     /\ (req.start[1] < len \/ (len = 0 /\ req.start[1] = 0))
  THEN {[ContentRange |-> ContentRangeOf(p, req.start[1], Min(req.end[1], len - 1), len),
         Body |-> <<req.start[1], Min(req.end[1], len - 1)>>] : p \in Prefixes}
  ELSE {}

\* descriptors that are missing or do not parse: none, the empty string and
\* the unsatisfied-range form "bytes */<len>"
MalformedDescriptors(len) ==
  {Undefined, <<>>, <<"b", "y", "t", "e", "s", " ", "*", "/">> \o IntStr(len)}

\* a successful response with such a descriptor carries the whole object
MalformedResponses(len) ==
  {[ContentRange |-> d, Body |-> <<0, len - 1>>] : d \in MalformedDescriptors(len)}

\* a successful response without a Body
NoBodyResponse == [ContentRange |-> Undefined, Body |-> Undefined]

\* no response at hand
NoResponse == [ContentRange |-> Undefined, Body |-> Undefined]

\* ------------------------------------------------------------------- state
VARIABLES
  variant,         \* which definition of class S3 runs
  objLen,          \* objLen[c]: length of the remote object call c downloads
                   \* (0 until the call names its object)
  pc,              \* pc[c]: "idle", "await" (s3.send pending), "body"
                   \* (transformToByteArray pending), "returned", "threw",
                   \* "cut" (the loop is not followed further)
  rangeAndLength,  \* the loop variable of downloadObject, per binding
  requests,        \* requests[c]: the windows call c has asked for, in order
  response,        \* response[c]: { ContentRange, Body } of the response at hand
  settled,         \* settled[c]: how many of c's range requests have settled
  stream,          \* stream[c]: the calls made on c's WriteStream, in order
  parsed,          \* parsed[c]: what each of c's responses' descriptor parsed to
  honest,          \* honest[c]: every response so far was a clamped one
  thrown,          \* thrown[c]: the error the call rejected with, or NoError
  cause,           \* cause[c]: the error the call caught, or NoError
  logs,            \* logs[c]: the levels of the log records of call c
  shots            \* the other operations called: where each stands, what it
                   \* caught, threw and logged

vars == <<variant, objLen, pc, rangeAndLength, requests, response, settled, stream,
          parsed, honest, thrown, cause, logs, shots>>

dlvars == <<objLen, pc, rangeAndLength, requests, response, settled, stream, parsed,
            honest, thrown, cause, logs>>

Init ==
  /\ variant \in Variants
  /\ objLen = [c \in Calls |-> 0]
  /\ pc = [c \in Calls |-> "idle"]
  /\ rangeAndLength = [c \in Calls |-> initialRangeAndLength]
  /\ requests = [c \in Calls |-> <<>>]
  /\ response = [c \in Calls |-> NoResponse]
  /\ settled = [c \in Calls |-> 0]
  /\ stream = [c \in Calls |-> <<>>]
  /\ parsed = [c \in Calls |-> <<>>]
  /\ honest = [c \in Calls |-> TRUE]
  /\ thrown = [c \in Calls |-> NoError]
  /\ cause = [c \in Calls |-> NoError]
  /\ logs = [c \in Calls |-> <<>>]
  /\ shots = <<>>

\* ---------------------------------------------------------- downloadObject
\* getObjectRange(start, end): one range request is sent
getObjectRangePipelined(sent, range) == Append(Append(sent, range), nextRange(range.end))

getObjectRange(sent, range) == Append(sent, range)

\* `await getObjectRange(...)`: the call is suspended until the request settles
awaitGetObjectRange == "await"

\* the while loop from its test on, with the stream calls and log records
\* made so far in this turn: when complete, log the success, run the finally
\* clause and return; else compute the next window, send the range request
\* and wait for it
whileLoop(c, cur, streamCalls, logged) ==
  IF isComplete(cur.end, cur.length)
  THEN /\ logs' = [logs EXCEPT ![c] = Append(logged, "info")]
       /\ stream' = [stream EXCEPT ![c] = finallyClause(variant, streamCalls)]
       /\ pc' = [pc EXCEPT ![c] = "returned"]
       /\ UNCHANGED requests
  ELSE /\ logs' = [logs EXCEPT ![c] = logged]
       /\ stream' = [stream EXCEPT ![c] = streamCalls]
       /\ IF Len(requests[c]) < MaxFetches
          THEN /\ requests' = [requests EXCEPT ![c] = getObjectRange(@, nextRange(cur.end))]
               /\ pc' = [pc EXCEPT ![c] = awaitGetObjectRange]
          ELSE /\ pc' = [pc EXCEPT ![c] = "cut"]
               /\ UNCHANGED requests

\* the call, up to its first await: log, declare rangeAndLength, enter the
\* loop and send the first range request
downloadObject(c, len) ==
  /\ pc[c] = "idle"
  /\ objLen' = [objLen EXCEPT ![c] = len]
  /\ rangeAndLength' = [rangeAndLength EXCEPT ![rangeAndLengthScope(c)] = initialRangeAndLength]
  /\ whileLoop(c, rangeAndLength'[rangeAndLengthScope(c)], stream[c], Append(logs[c], "info"))
  /\ UNCHANGED <<variant, response, settled, parsed, honest, thrown, cause, shots>>

\* the catch and finally clauses of downloadObject
Fail(c, error) ==
  LET n == catchClause(variant, "downloadObject", error) IN
  /\ cause' = [cause EXCEPT ![c] = error]
  /\ thrown' = [thrown EXCEPT ![c] = n.thrown]
  /\ logs' = [logs EXCEPT ![c] = @ \o n.logged]
  /\ stream' = [stream EXCEPT ![c] = finallyClause(variant, @)]
  /\ pc' = [pc EXCEPT ![c] = "threw"]

LastRequest(c) == requests[c][Len(requests[c])]

\* what the store may answer to the request call c awaits
Answers(c) ==
  IF pc[c] = "await"
  THEN ClampedResponses(objLen[c], LastRequest(c)) \cup MalformedResponses(objLen[c])
         \cup {NoBodyResponse}
  ELSE {}

\* the same, for a store that answers with clamped windows or rejects
AnswersConc(c) ==
  IF pc[c] = "await" THEN ClampedResponses(objLen[c], LastRequest(c)) ELSE {}

\* s3.send resolves: the response is destructured and the call waits for
\* `await Body?.transformToByteArray()`
RangeResponse(c, r) ==
  /\ pc[c] = "await"
  /\ response' = [response EXCEPT ![c] = r]
  /\ settled' = [settled EXCEPT ![c] = @ + 1]
  /\ honest' = [honest EXCEPT ![c] = @ /\ r \in ClampedResponses(objLen[c], LastRequest(c))]
  /\ pc' = [pc EXCEPT ![c] = "body"]
  /\ UNCHANGED <<variant, objLen, rangeAndLength, requests, stream, parsed, thrown, cause,
                 logs, shots>>

\* s3.send rejects: catch, finally, throw
RangeFetchFails(c, k) ==
  /\ pc[c] = "await"
  /\ Fail(c, Cause(k))
  /\ settled' = [settled EXCEPT ![c] = @ + 1]
  /\ honest' = [honest EXCEPT ![c] = FALSE]
  /\ UNCHANGED <<variant, objLen, rangeAndLength, requests, response, parsed, shots>>

\* the bytes are there: write them, parse the descriptor, go on with the loop
WriteAndParse(c) ==
  LET r == response[c]
      p == getRangeAndLength(OrEmpty(r.ContentRange))
  IN
  /\ pc[c] = "body"
  /\ r.Body # Undefined
  /\ rangeAndLength' = [rangeAndLength EXCEPT ![rangeAndLengthScope(c)] = p]
  /\ parsed' = [parsed EXCEPT ![c] = Append(@, p)]
  /\ response' = [response EXCEPT ![c] = NoResponse]
  /\ whileLoop(c, rangeAndLength'[rangeAndLengthScope(c)],
               Append(stream[c], <<"write", r.Body[1], r.Body[2]>>), logs[c])
  /\ UNCHANGED <<variant, objLen, settled, honest, thrown, cause, shots>>

\* Body.transformToByteArray() rejects: catch, finally, throw
BodyReadFails(c, k) ==
  /\ pc[c] = "body"
  /\ response[c].Body # Undefined
  /\ Fail(c, Cause(k))
  /\ response' = [response EXCEPT ![c] = NoResponse]
  /\ honest' = [honest EXCEPT ![c] = FALSE]
  /\ UNCHANGED <<variant, objLen, rangeAndLength, requests, settled, parsed, shots>>

\* the response has no Body: after `await undefined`, stream.write(undefined)
\* throws a TypeError; catch, finally, throw
WriteThrows(c) ==
  /\ pc[c] = "body"
  /\ response[c].Body = Undefined
  /\ Fail(c, Cause("Error"))
  /\ response' = [response EXCEPT ![c] = NoResponse]
  /\ UNCHANGED <<variant, objLen, rangeAndLength, requests, settled, parsed, honest, shots>>

\* -------------------------------------------------------- other operations
\* getObjectString and getByteArray call getObject and read the body
BodyReaders == {"getObjectString", "getByteArray"}

\* the request an operation sends is logged and fails as this operation's
SentAs(op) == IF op \in BodyReaders THEN "getObject" ELSE op

BodyUndefinedMessage == "object body was undefined"

\* !object.Body || !object.ContentLength: index_v1 throws a new Error,
\* part000_v1 logs it first, the others pass it through generateError
bodyUndefined(v) ==
  [thrown |-> NewError(BodyUndefinedMessage),
   logged |-> IF v = "index_v1" THEN <<>> ELSE <<"error">>]

\* getObject's promise, as getObjectString / getByteArray await it: not
\* rejected, or rejected with what its catch clause caught and threw
NotRejected == [cause |-> NoError, thrown |-> NoError]

\* the call, up to `await this.s3.send(...)`: the first log record, the send
SingleShotCall(op) ==
  /\ Len(shots) < MaxOps
  /\ op \in SingleShotOps(variant) \cup BodyReaders
  /\ shots' = Append(shots, [op |-> op, status |-> "pending", body |-> FALSE,
                             rejection |-> NotRejected,
                             cause |-> NoError, thrown |-> NoError,
                             logged |-> <<"info">>])
  /\ UNCHANGED <<variant, dlvars>>

\* s3.send resolves: the second log record, return
SingleShotOk(i) ==
  /\ i \in 1..Len(shots)
  /\ shots[i].status = "pending"
  /\ shots[i].op \notin BodyReaders
  /\ shots' = [shots EXCEPT ![i].status = "returned", ![i].logged = Append(@, "info")]
  /\ UNCHANGED <<variant, dlvars>>

\* s3.send rejects: the catch clause, the call rejects
SingleShotFails(i, k) ==
  LET n == catchClause(variant, shots[i].op, Cause(k)) IN
  /\ i \in 1..Len(shots)
  /\ shots[i].status = "pending"
  /\ shots[i].op \notin BodyReaders
  /\ shots' = [shots EXCEPT ![i].status = "threw", ![i].cause = Cause(k),
                            ![i].thrown = n.thrown, ![i].logged = @ \o n.logged]
  /\ UNCHANGED <<variant, dlvars>>

\* s3.send rejects in the getObject that getObjectString / getByteArray
\* called: getObject's catch clause runs and its promise rejects; the caller
\* is still at `await this.getObject(...)`
GetObjectFails(i, k) ==
  LET n == catchClause(variant, SentAs(shots[i].op), Cause(k)) IN
  /\ i \in 1..Len(shots)
  /\ shots[i].status = "pending"
  /\ shots[i].op \in BodyReaders
  /\ shots[i].rejection = NotRejected
  /\ shots' = [shots EXCEPT ![i].rejection = [cause |-> Cause(k), thrown |-> n.thrown],
                            ![i].logged = @ \o n.logged]
  /\ UNCHANGED <<variant, dlvars>>

\* `await this.getObject(...)` throws what getObject threw: the call rejects
GetObjectRejected(i) ==
  /\ i \in 1..Len(shots)
  /\ shots[i].status = "pending"
  /\ shots[i].rejection # NotRejected
  /\ shots' = [shots EXCEPT ![i].status = "threw", ![i].cause = shots[i].rejection.cause,
                            ![i].thrown = shots[i].rejection.thrown]
  /\ UNCHANGED <<variant, dlvars>>

\* getObject returns to getObjectString / getByteArray, with or without a
\* Body and a non-zero ContentLength
GetObjectReturns(i, hasBody) ==
  /\ i \in 1..Len(shots)
  /\ shots[i].status = "pending"
  /\ shots[i].op \in BodyReaders
  /\ shots[i].rejection = NotRejected
  /\ shots' = [shots EXCEPT ![i].status = "got", ![i].body = hasBody,
                            ![i].logged = Append(@, "info")]
  /\ UNCHANGED <<variant, dlvars>>

\* after `await this.getObject(...)`: no body, throw
BodyUndefined(i) ==
  LET n == bodyUndefined(variant) IN
  /\ i \in 1..Len(shots)
  /\ shots[i].status = "got"
  /\ ~shots[i].body
  /\ shots' = [shots EXCEPT ![i].status = "threw", ![i].thrown = n.thrown,
                            ![i].logged = @ \o n.logged]
  /\ UNCHANGED <<variant, dlvars>>

\* after `await this.getObject(...)`: Body.transformToString() or
\* transformToByteArray() is called and its promise returned
TransformBody(i) ==
  /\ i \in 1..Len(shots)
  /\ shots[i].status = "got"
  /\ shots[i].body
  /\ shots' = [shots EXCEPT ![i].status = "transform"]
  /\ UNCHANGED <<variant, dlvars>>

\* the transformation resolves
BodyTransformed(i) ==
  /\ i \in 1..Len(shots)
  /\ shots[i].status = "transform"
  /\ shots' = [shots EXCEPT ![i].status = "returned"]
  /\ UNCHANGED <<variant, dlvars>>

\* the transformation rejects: no catch clause, the call rejects with the
\* error as it is
BodyTransformFails(i, k) ==
  /\ i \in 1..Len(shots)
  /\ shots[i].status = "transform"
  /\ shots' = [shots EXCEPT ![i].status = "threw", ![i].thrown = Cause(k)]
  /\ UNCHANGED <<variant, dlvars>>

\* ------------------------------------------------------------ specifications
\* one downloadObject call, against every behaviour of the object store
Next ==
  \/ \E len \in Lengths : downloadObject(1, len)
  \/ \E r \in Answers(1) : RangeResponse(1, r)
  \/ \E k \in ErrorKinds : RangeFetchFails(1, k)
  \/ WriteAndParse(1)
  \/ \E k \in ErrorKinds : BodyReadFails(1, k)
  \/ WriteThrows(1)

Spec == Init /\ [][Next]_vars

\* concurrent downloadObject calls on one instance: objects of no, one and
\* two chunks; the store answers with the clamped window or rejects
ConcLengths == {0, 1, ONE_MB + 1}

NextConc ==
  \/ \E c \in Calls, len \in ConcLengths : downloadObject(c, len)
  \/ \E c \in Calls : \E r \in AnswersConc(c) : RangeResponse(c, r)
  \/ \E c \in Calls : RangeFetchFails(c, "S3ServiceException")
  \/ \E c \in Calls : WriteAndParse(c)

SpecConc == Init /\ [][NextConc]_vars

AllOps == {"headObject", "getObject", "updateObjectMetadata", "putObject"}

\* concurrent calls of the other operations
NextOps ==
  \/ \E op \in AllOps \cup BodyReaders : SingleShotCall(op)
  \/ \E i \in 1..MaxOps : SingleShotOk(i)
  \/ \E i \in 1..MaxOps, k \in ErrorKinds : SingleShotFails(i, k)
  \/ \E i \in 1..MaxOps, k \in ErrorKinds : GetObjectFails(i, k)
  \/ \E i \in 1..MaxOps : GetObjectRejected(i)
  \/ \E i \in 1..MaxOps, hasBody \in BOOLEAN : GetObjectReturns(i, hasBody)
  \/ \E i \in 1..MaxOps : BodyUndefined(i)
  \/ \E i \in 1..MaxOps : TransformBody(i)
  \/ \E i \in 1..MaxOps : BodyTransformed(i)
  \/ \E i \in 1..MaxOps, k \in ErrorKinds : BodyTransformFails(i, k)

SpecOps == Init /\ [][NextOps]_vars

\* ------------------------------------------------------- claim vocabulary
\* the chunks written to call c's stream, in order
Writes(c) == SelectSeq(stream[c], LAMBDA e : e[1] = "write")

\* how often the stream was finalized (end) and discarded (destroy, unlink)
Ends(c) == Len(SelectSeq(stream[c], LAMBDA e : e[1] = "end"))

Discards(c) == Len(SelectSeq(stream[c], LAMBDA e : e[1] \in {"destroy", "unlink"}))

RECURSIVE BytesIn(_)
BytesIn(ws) == IF ws = <<>> THEN 0 ELSE (Head(ws)[3] - Head(ws)[2] + 1) + BytesIn(Tail(ws))

BytesWritten(c) == BytesIn(Writes(c))

\* ceil(len / CHUNK_SIZE), and at least one
ExpectedFetches(len) ==
  IF len = 0 THEN 1 ELSE (len + ONE_MB - 1) \div ONE_MB

\* chunk k starts right after chunk k - 1, the first one at offset 0
Contiguous(ws) ==
  \A k \in 1..Len(ws) : ws[k][2] = (IF k = 1 THEN 0 ELSE ws[k - 1][3] + 1)

\* a > b of two numbers (false when either is NaN)
JsGreater(a, b) == a # NaN /\ b # NaN /\ a[1] > b[1]

\* the descriptor did not yield the end and the length
Unparsable(p) == p.end = NaN \/ p.length = NaN

Count(seq, x) == Len(SelectSeq(seq, LAMBDA e : e = x))

\* ------------------------------------------------------------------ claims
\* C1: against a server that clamps every window to the object's end, a
\* download of an object of length L >= 0 issues exactly ceil(L / CHUNK_SIZE)
\* range fetches (one when L = 0) and writes exactly the L bytes of the
\* object, in increasing offset order, without gap or overlap.
C1_CompletionInvariant ==
  \A c \in Calls :
    honest[c] =>
      /\ Len(requests[c]) <= ExpectedFetches(objLen[c])
      /\ Contiguous(Writes(c))
      /\ BytesWritten(c) <= objLen[c]
      /\ pc[c] = "returned" =>
           /\ Len(requests[c]) = ExpectedFetches(objLen[c])
           /\ BytesWritten(c) = objLen[c]

\* C2: on every exit of downloadObject exactly one of finalize and discard
\* has been invoked on the sink, exactly once: finalize when the call
\* returned, discard when it threw.
C2_OneTerminalSinkOperation ==
  \A c \in Calls :
    /\ pc[c] = "returned" => (Ends(c) = 1 /\ Discards(c) = 0)
    /\ pc[c] = "threw" => (Discards(c) = 1 /\ Ends(c) = 0)

\* C3: once a response's content-range descriptor is missing or does not
\* parse, the call has failed, the sink is discarded and no range fetch
\* follows that response.
C3_MalformedDescriptorFails ==
  \A c \in Calls :
    \A k \in 1..Len(parsed[c]) :
      Unparsable(parsed[c][k]) =>
        /\ pc[c] = "threw"
        /\ Len(requests[c]) = k
        /\ Discards(c) = 1

\* C4: when a range fetch fails after at least one chunk was written, the
\* call has discarded the sink (and not finalized it) by the time it throws,
\* and throws one failure that wraps the cause and carries the descriptive
\* message of the download.
C4_MidStreamFailureDiscards ==
  \A c \in Calls :
    (pc[c] = "threw" /\ Len(Writes(c)) >= 1) =>
      /\ Discards(c) = 1
      /\ Ends(c) = 0
      /\ thrown[c].message = FailureMessage("downloadObject")
      /\ Count(logs[c], "error") = 1

\* C5: for an object of length 0 the download issues exactly one range
\* fetch, writes no byte, and after that first response the completion
\* check holds, so the call finalizes the sink and returns.
C5_EmptyObject ==
  \A c \in Calls :
    (objLen[c] = 0 /\ honest[c]) =>
      /\ Len(requests[c]) <= 1
      /\ BytesWritten(c) = 0
      /\ Len(parsed[c]) >= 1 =>
           /\ isComplete(parsed[c][1].end, parsed[c][1].length)
           /\ pc[c] = "returned"
      /\ pc[c] = "returned" => Ends(c) = 1

\* C6: for an object of exactly CHUNK_SIZE bytes the download issues exactly
\* one range fetch, for the window [0, CHUNK_SIZE - 1], and the loop ends
\* after it.
C6_ExactlyOneChunk ==
  \A c \in Calls :
    (objLen[c] = ONE_MB /\ honest[c]) =>
      /\ Len(requests[c]) <= 1
      /\ Len(requests[c]) = 1 =>
           requests[c][1] = [start |-> Num(0), end |-> Num(ONE_MB - 1)]
      /\ Len(parsed[c]) = 1 => pc[c] = "returned"
      /\ pc[c] = "returned" => (Len(requests[c]) = 1 /\ BytesWritten(c) = ONE_MB)

C6_Witness ==
  \E c \in Calls :
    /\ objLen[c] = ONE_MB /\ honest[c] /\ pc[c] = "returned"
    /\ Len(requests[c]) = 1
    /\ Writes(c) = <<<<"write", 0, ONE_MB - 1>>>>

\* C7: for an object of CHUNK_SIZE + 1 bytes the download issues exactly two
\* range fetches; the first delivers bytes [0, CHUNK_SIZE - 1], the second
\* starts at CHUNK_SIZE and delivers one byte, and the call returns with
\* CHUNK_SIZE + 1 bytes written.
C7_OneByteOver ==
  \A c \in Calls :
    (objLen[c] = ONE_MB + 1 /\ honest[c]) =>
      /\ Len(requests[c]) <= 2
      /\ Len(requests[c]) >= 2 => requests[c][2].start = Num(ONE_MB)
      /\ Len(Writes(c)) >= 1 => Writes(c)[1] = <<"write", 0, ONE_MB - 1>>
      /\ Len(Writes(c)) >= 2 => Writes(c)[2] = <<"write", ONE_MB, ONE_MB>>
      /\ pc[c] = "returned" =>
           (Len(requests[c]) = 2 /\ BytesWritten(c) = ONE_MB + 1)

C7_Witness ==
  \E c \in Calls :
    /\ objLen[c] = ONE_MB + 1 /\ honest[c] /\ pc[c] = "returned"
    /\ Len(requests[c]) = 2
    /\ Len(Writes(c)) = 2

\* C8: a failed single-shot operation throws the caught error itself, with
\* the descriptive message, when it is a service exception, and a new
\* generic Error with the descriptive message otherwise; the failure is
\* logged at error level exactly once.
C8_NormalizedError ==
  \A i \in 1..Len(shots) :
    LET s == shots[i] IN
    (s.op \in AllOps /\ s.status = "threw") =>
      /\ s.cause.kind = "S3ServiceException" =>
           s.thrown = [s.cause EXCEPT !.message = FailureMessage(s.op)]
      /\ s.cause.kind # "S3ServiceException" =>
           s.thrown = NewError(FailureMessage(s.op))
      /\ Count(s.logged, "error") = 1

\* C9: the range progress of a downloadObject call starts at {-1, -1} and is
\* its own: under every interleaving of concurrent calls, the progress of a
\* call holds what that call last put there (the initial value, or what it
\* parsed from its own last response), each window a call asks for follows
\* from the end parsed from that call's own previous response, and each
\* chunk it writes is its own window clamped to its own object.
C9_ProgressIsPerCall ==
  \A c \in Calls :
    /\ pc[c] # "idle" =>
         rangeAndLength[rangeAndLengthScope(c)] =
           IF parsed[c] = <<>> THEN initialRangeAndLength
           ELSE parsed[c][Len(parsed[c])]
    /\ Len(requests[c]) <= Len(parsed[c]) + 1
    /\ \A k \in 1..Len(requests[c]) :
         LET prev == IF k = 1 THEN Num(-1) ELSE parsed[c][k - 1].end IN
         /\ requests[c][k].start = JsAdd(prev, Num(1))
         /\ requests[c][k].end = JsAdd(prev, Num(ONE_MB))
    /\ \A k \in 1..Len(Writes(c)) :
         Writes(c)[k] = <<"write", requests[c][k].start[1],
                          Min(requests[c][k].end[1], objLen[c] - 1)>>
    /\ (objLen[c] >= 1 /\ honest[c]) =>
         \A k \in 1..Len(requests[c]) :
           requests[c][k] = [start |-> Num((k - 1) * ONE_MB), end |-> Num(k * ONE_MB - 1)]

C9_Witness ==
  \E c, d \in Calls :
    /\ c # d
    /\ pc[c] = "await" /\ Len(requests[c]) = 2 /\ Len(parsed[c]) = 1
    /\ pc[d] = "await" /\ Len(requests[d]) = 1
    /\ rangeAndLength[rangeAndLengthScope(c)] # rangeAndLength[rangeAndLengthScope(d)]

\* C10: against a server whose descriptors are well formed and clamped, the
\* loop ends: the end parsed from every response is greater than the one
\* before it (so at most max(1, ceil(L / CHUNK_SIZE)) fetches are issued and
\* the last one completes the object), and a call that returned has
\* lastFetchedEnd = totalLength - 1.
C10_LoopTerminates ==
  \A c \in Calls :
    honest[c] =>
      /\ \A k \in 1..Len(parsed[c]) :
           JsGreater(parsed[c][k].end,
                     IF k = 1 THEN Num(-1) ELSE parsed[c][k - 1].end)
      /\ Len(parsed[c]) = ExpectedFetches(objLen[c]) =>
           isComplete(parsed[c][Len(parsed[c])].end, parsed[c][Len(parsed[c])].length)
      /\ pc[c] = "returned" =>
           StrictEq(rangeAndLength[rangeAndLengthScope(c)].end,
                    JsAdd(rangeAndLength[rangeAndLengthScope(c)].length, Num(-1)))

\* the range requests of call c that are sent and not settled
InFlight(c) == Len(requests[c]) - settled[c]

\* C11: range fetches are strictly sequential: a call has at most one range
\* fetch in flight, request k + 1 is sent only when chunk k has been written
\* to the sink, and the sink receives the chunks in the order of the
\* requests (chunk k is the answer to request k).
C11_StrictlySequential ==
  \A c \in Calls :
    /\ InFlight(c) \in {0, 1}
    /\ \A k \in 2..Len(requests[c]) : Len(Writes(c)) >= k - 1
    /\ Len(Writes(c)) <= Len(requests[c])
    /\ honest[c] =>
         \A k \in 1..Len(Writes(c)) : Writes(c)[k][2] = requests[c][k].start[1]

C11_Witness ==
  \E c \in Calls :
    /\ honest[c] /\ InFlight(c) = 1
    /\ Len(requests[c]) = 2 /\ Len(Writes(c)) = 1
    /\ requests[c][2].start = Num(Writes(c)[1][3] + 1)

\* the responses of call c whose descriptor yielded the end and the length
ParsedOk(c) == Len(SelectSeq(parsed[c], LAMBDA p : ~Unparsable(p)))

\* C12: the descriptor of a response is parsed before its bytes are written,
\* so a response whose descriptor is missing or malformed adds nothing to
\* the sink: the chunks written never outnumber the responses whose
\* descriptor parsed.
C12_ParseBeforeWrite ==
  \A c \in Calls : Len(Writes(c)) <= ParsedOk(c)

====
